---------------------------- MODULE Spec2Model ----------------------------
(***************************************************************************)
(* Refinement tree, reachability graph and CEGAR driver of Cegar4Ariadne, *)
(* in one dimension.  Boxes are closed integer intervals <<lo, hi>>, the   *)
(* tree is a sequence of tree values indexed by node id (creation order),  *)
(* the graph is a vertex vector plus an edge vector in insertion order.    *)
(* Validated Kleeneans are the strings "T", "F", "I".                      *)
(***************************************************************************)
EXTENDS Integers, Sequences, FiniteSets, TLC

VARIABLES
    dynamics,       \* mDynamics: name of the transition map
    constraints,    \* mConstraints: the safe interval
    tree,           \* mRefinements: Seq of [box, safe, kids]
    gverts,         \* mMappings: vertex values (tree node ids), in vector order
    gedges,         \* mMappings: edges <<src, trg>> in insertion order
    pc,             \* position of the cegar call: "idle", "loop", "done";
                    \* "panic" after a programming error
    initialSet,     \* cegar argument
    maxNodes,       \* cegar argument
    initialImage,   \* cegar local: std::set ordered by NodeComparator
    result,         \* first component of the returned pair
    path,           \* second component of the returned pair
    sizeAtCall,     \* history: tree size when cegar was called
    sizeAtTest,     \* history: tree size at the last loop test
    lastTargets,    \* history: number of nodes refined by the last iteration
    iter,           \* history: parity of the number of loop iterations run
    proved          \* history: <<initialSet, maxNodes, called again>> of a
                    \* proved-safe return on the present tree, or <<>>

vars == <<dynamics, constraints, tree, gverts, gedges, pc, initialSet,
          maxNodes, initialImage, result, path, sizeAtCall, sizeAtTest,
          lastTargets, iter, proved>>

-----------------------------------------------------------------------------
(* Bounds of the model *)

\* number of refine calls the model follows
MaxRefines == 3

\* branching factor of the tree
N == 2

\* largest tree the model builds
MaxTreeSize == 1 + N * MaxRefines

\* width of the root box: every box the model can build has an integer centre
RootWidth == 2 ^ (MaxRefines + 1)

RootBox == <<0, RootWidth>>

\* the vertex standing for the implicit outside sink (no node value)
Outside == 0

-----------------------------------------------------------------------------
(* Three-valued logic *)

Kleenean == {"T", "F", "I"}

definitely(k) == k = "T"

possibly(k) == k # "F"

Not(k) == CASE k = "T" -> "F" [] k = "F" -> "T" [] OTHER -> "I"

\* a verified lower Kleenean: the check either proves the predicate or gives up
LowerCheck(b) == IF b THEN "T" ELSE "I"

-----------------------------------------------------------------------------
(* Numeric kernel: boxes, points, dynamics, constraint set *)

Max2(a, b) == IF a >= b THEN a ELSE b

Min2(a, b) == IF a <= b THEN a ELSE b

intersection(b1, b2) == <<Max2(b1[1], b2[1]), Min2(b1[2], b2[2])>>

\* is_empty of an exact box: proved empty only when lower > upper
is_empty(b) == LowerCheck(b[1] > b[2])

centre(b) == (b[1] + b[2]) \div 2

\* contains(point): true inside, false outside, undecided on the boundary
contains(b, pt) ==
    IF b[1] < pt /\ pt < b[2] THEN "T"
    ELSE IF pt < b[1] \/ pt > b[2] THEN "F"
    ELSE "I"

Dynamics == {"id", "fold", "shift", "double"}

\* dynamics().evaluate( point )
evaluate(f, x) ==
    CASE f = "id"     -> x
      [] f = "fold"   -> IF x <= RootWidth \div 2 THEN x \div 2
                         ELSE 2 * x - (3 * RootWidth) \div 4
      [] f = "shift"  -> x + RootWidth \div 4
      [] f = "double" -> 2 * x

\* Ariadne::image( box, dynamics ): all maps are increasing
BoxImage(f, b) == <<evaluate(f, b[1]), evaluate(f, b[2])>>

ConstraintSets ==
    { <<0 - 1, RootWidth + 1>>,
      <<0, RootWidth \div 2>>,
      <<RootWidth + 1, RootWidth + 2>> }

\* constraints.overlaps( box ): the interiors meet
overlaps(cs, b) == b[1] < cs[2] /\ cs[1] < b[2]

InitialSets ==
    { RootBox, <<0, 1>>, <<RootWidth - 1, RootWidth>> }

-----------------------------------------------------------------------------
(* Fixed-branch tree *)

\* TreeValue( e, safe ) as stored in a fresh leaf
TreeValue(e, safe) == [box |-> e, safe |-> safe, kids |-> <<>>]

\* the safety flag of a box: constraints.overlaps( e ).check( effort )
SafeFlag(cs, e) == LowerCheck(overlaps(cs, e))

size(t) == Len(t)

isLeaf(t, n) == t[n].kids = <<>>

getEnclosure(t, n) == t[n].box

\* tree::expand: the N values become the children of leaf n
expand(t, n, tvals) ==
    [t EXCEPT ![n].kids = <<Len(t) + 1, Len(t) + 2>>] \o tvals

\* IRefinementStrategy::refine: bisection of the box
Bisect(b) == << <<b[1], centre(b)>>, <<centre(b), b[2]>> >>

\* leaves( treev ): all leaves in the subtree at n, left to right;
\* the outside sink has no tree node and stands for itself
RECURSIVE leaves(_, _)
leaves(t, n) ==
    IF n = Outside THEN <<Outside>>
    ELSE IF isLeaf(t, n) THEN <<n>>
    ELSE leaves(t, t[n].kids[1]) \o leaves(t, t[n].kids[2])

RECURSIVE imageRecursive(_, _, _)
\* mutant: a subtree is pruned as soon as the intersection has no interior
imageRecursivePruneTouching(t, from, to) ==
    LET inter == intersection(from, getEnclosure(t, to))
    IN  IF inter[1] >= inter[2] THEN <<>>
        ELSE IF isLeaf(t, to) THEN <<to>>
        ELSE imageRecursive(t, from, t[to].kids[1])
                \o imageRecursive(t, from, t[to].kids[2])

\* imageRecursive( from, to ): leaves under `to` that possibly intersect `from`
imageRecursive(t, from, to) ==
    IF definitely(is_empty(intersection(from, getEnclosure(t, to)))) THEN <<>>
    ELSE IF isLeaf(t, to) THEN <<to>>
    ELSE imageRecursive(t, from, t[to].kids[1])
            \o imageRecursive(t, from, t[to].kids[2])

\* image( from ): searched from the root
image(t, from) == imageRecursive(t, from, 1)

-----------------------------------------------------------------------------
(* Adjacency digraph over the leaves *)

Range(s) == {s[i] : i \in 1..Len(s)}

addVertex(V, val) == Append(V, val)

\* addEdge is idempotent
addEdge(E, u, v) == IF <<u, v>> \in Range(E) THEN E ELSE Append(E, <<u, v>>)

IsNot(v, x) == x # v

NotIncident(v, e) == e[1] # v /\ e[2] # v

\* removeVertex also removes the incident edges
removeVertexV(V, v) == SelectSeq(V, LAMBDA x : IsNot(v, x))

removeVertexE(E, v) == SelectSeq(E, LAMBDA e : NotIncident(v, e))

\* preimage( from ): sources of the in-edges, in edge order
preimage(E, v) ==
    LET ins == SelectSeq(E, LAMBDA e : e[2] = v)
    IN  [i \in 1..Len(ins) |-> ins[i][1]]

\* postimage( from ): targets of the out-edges, in edge order
postimage(E, v) ==
    LET outs == SelectSeq(E, LAMBDA e : e[1] = v)
    IN  [i \in 1..Len(outs) |-> outs[i][2]]

-----------------------------------------------------------------------------
(* Refinement tree *)

\* the image of a box leaves the root box
LeavesRoot(f, b) ==
    LET img == BoxImage(f, b)
    IN  ~(RootBox[1] <= img[1] /\ img[2] <= RootBox[2])

\* isReachable( src, trg ): an upper Kleenean, false only if the mapped box
\* and the target box are proved disjoint
isReachable(f, t, src, trg) ==
    IF trg = Outside
    THEN Not(LowerCheck(~LeavesRoot(f, getEnclosure(t, src))))
    ELSE Not(is_empty(intersection(BoxImage(f, getEnclosure(t, src)),
                                   getEnclosure(t, trg))))

\* fold of addEdge over candidate pairs, keeping those possibly reachable
RECURSIVE addEdges(_, _, _, _)
\* mutant: every examined pair becomes an edge, reachable or not
addEdgesAll(f, t, E, cands) ==
    IF cands = <<>> THEN E
    ELSE LET c == Head(cands)
         IN  addEdges(f, t, addEdge(E, c[1], c[2]), Tail(cands))

addEdges(f, t, E, cands) ==
    IF cands = <<>> THEN E
    ELSE LET c == Head(cands)
             E1 == IF possibly(isReachable(f, t, c[1], c[2]))
                   THEN addEdge(E, c[1], c[2]) ELSE E
         IN  addEdges(f, t, E1, Tail(cands))

\* concatenation of leaves( n ) over a vector of nodes
RECURSIVE leavesOfAll(_, _)
leavesOfAll(t, ns) ==
    IF ns = <<>> THEN <<>>
    ELSE leaves(t, Head(ns)) \o leavesOfAll(t, Tail(ns))

\* mutant: the pre- and post-image are not traced down to their leaves
CandidatesNoLeaves(t, pres, posts, c) ==
    [i \in 1..Len(pres) |-> <<pres[i], c>>]
        \o [i \in 1..Len(posts) |-> <<c, posts[i]>>]

\* the pairs the edge loops of refine examine for one refined node c
Candidates(t, pres, posts, c) ==
    LET pl == leavesOfAll(t, pres)
        sl == leavesOfAll(t, posts)
    IN  [i \in 1..Len(pl) |-> <<pl[i], c>>] \o [i \in 1..Len(sl) |-> <<c, sl[i]>>]

\* RefinementTree::refine( v, r ): the tree after the call
refineTree(cs, t, v) ==
    LET refined == Bisect(getEnclosure(t, v))
        tvals   == [i \in 1..N |-> TreeValue(refined[i], SafeFlag(cs, refined[i]))]
    IN  expand(t, v, tvals)

\* mutant: the refined node is not unlinked from the graph
refineVertsKeep(t, V, v) == addVertex(addVertex(V, Len(t) + 1), Len(t) + 2)

\* RefinementTree::refine( v, r ): the vertex vector after the call
refineVerts(t, V, v) ==
    removeVertexV(addVertex(addVertex(V, Len(t) + 1), Len(t) + 2), v)

\* mutant: unlinking the refined node also drops the edges that lead into
\* its predecessors
refineEdgesUnlinkPredecessors(f, cs, t, E, v) ==
    LET t1    == refineTree(cs, t, v)
        pres  == Append(preimage(E, v), v)
        posts == Append(postimage(E, v), v)
        E1    == addEdges(f, t1, E, Candidates(t1, pres, posts, Len(t) + 1))
        E2    == addEdges(f, t1, E1, Candidates(t1, pres, posts, Len(t) + 2))
    IN  SelectSeq(removeVertexE(E2, v),
                  LAMBDA e : e[2] \notin Range(preimage(E, v)))

\* RefinementTree::refine( v, r ): the edge vector after the call
refineEdges(f, cs, t, E, v) ==
    LET t1    == refineTree(cs, t, v)
        pres  == Append(preimage(E, v), v)
        posts == Append(postimage(E, v), v)
        E1    == addEdges(f, t1, E, Candidates(t1, pres, posts, Len(t) + 1))
        E2    == addEdges(f, t1, E1, Candidates(t1, pres, posts, Len(t) + 2))
    IN  removeVertexE(E2, v)

\* tree::expand fails on a node that is not a leaf
expandFails(t, n) == ~isLeaf(t, n)

\* mutant: the vertices of the children are added before the tree is expanded
refineStepsVerticesFirst(f, cs, t, V, E, v) ==
    IF expandFails(t, v)
    THEN [t |-> t, V |-> V \o t[v].kids, E |-> E, failed |-> TRUE]
    ELSE [t |-> refineTree(cs, t, v), V |-> refineVerts(t, V, v),
          E |-> refineEdges(f, cs, t, E, v), failed |-> FALSE]

\* RefinementTree::refine( v, r ), statement by statement: refine has no
\* leaf test of its own, the first call that can fail is tree::expand, and
\* the vertices and edges are added after it
refineSteps(f, cs, t, V, E, v) ==
    IF expandFails(t, v)
    THEN [t |-> t, V |-> V, E |-> E, failed |-> TRUE]
    ELSE [t |-> refineTree(cs, t, v), V |-> refineVerts(t, V, v),
          E |-> refineEdges(f, cs, t, E, v), failed |-> FALSE]

\* RefinementTree::RefinementTree: vertex and edges of the single root leaf
InitEdges(f, t) ==
    addEdges(f, t, <<>>, << <<1, 1>>, <<1, Outside>> >>)

-----------------------------------------------------------------------------
(* Node queries used by the driver *)

\* nodeValue( n ): absent for the outside sink
hasValue(n) == n # Outside

\* isSafe( n ): the stored flag; the outside sink is not safe
isSafe(t, n) == IF hasValue(n) THEN t[n].safe ELSE "F"

\* nodesEqual( n1, n2 ): the enclosures compare equal
nodesEqual(t, n1, n2) == LowerCheck(getEnclosure(t, n1) = getEnclosure(t, n2))

\* equal( n1, n2 ): nodesEqual on concrete nodes; the sink equals only itself
equal(t, n1, n2) ==
    IF hasValue(n1) /\ hasValue(n2) THEN definitely(nodesEqual(t, n1, n2))
    ELSE ~hasValue(n1) /\ ~hasValue(n2)

\* NodeComparator::operator(): ids are the creation indices of the tree nodes
NodeComparator(n1, n2) ==
    IF ~hasValue(n1) /\ ~hasValue(n2) THEN TRUE
    ELSE IF ~hasValue(n1) \/ ~hasValue(n2) THEN FALSE
    ELSE n1 < n2

\* std::set::find under the comparator
setFind(S, k) ==
    \E i \in 1..Len(S) : ~NodeComparator(S[i], k) /\ ~NodeComparator(k, S[i])

\* std::set::insert of one key under the comparator
setInsert(S, k) ==
    IF setFind(S, k) THEN S
    ELSE LET before == SelectSeq(S, LAMBDA x : NodeComparator(x, k))
             after  == SelectSeq(S, LAMBDA x : ~NodeComparator(x, k))
         IN  before \o <<k>> \o after

\* std::set::insert of a range
RECURSIVE setInsertAll(_, _)
setInsertAll(S, ks) ==
    IF ks = <<>> THEN S ELSE setInsertAll(setInsert(S, Head(ks)), Tail(ks))

\* std::set::erase of the element found for key k
setErase(S, k) ==
    SelectSeq(S, LAMBDA x : NodeComparator(x, k) \/ NodeComparator(k, x))

-----------------------------------------------------------------------------
(* Counterexample search (cegar.hpp) *)

RECURSIVE findCounterexample(_, _, _, _)
\* mutant: only the first node of the image is explored
findCounterexampleFirstBranch(t, E, img, pth) ==
    IF img = <<>> THEN <<>>
    ELSE LET n        == Head(img)
             loop     == \E i \in 1..Len(pth) : equal(t, n, pth[i])
             copyPath == Append(pth, n)
         IN  IF loop THEN <<>>
             ELSE IF ~definitely(isSafe(t, n)) THEN copyPath
             ELSE findCounterexample(t, E, postimage(E, n), copyPath)

\* mutant: the possibly unsafe node is not pushed onto the returned path
findCounterexampleNoPush(t, E, img, pth) ==
    IF img = <<>> THEN <<>>
    ELSE LET n        == Head(img)
             loop     == \E i \in 1..Len(pth) : equal(t, n, pth[i])
             copyPath == Append(pth, n)
             cex      == IF loop THEN <<>>
                         ELSE IF ~definitely(isSafe(t, n)) THEN pth
                         ELSE findCounterexample(t, E, postimage(E, n), copyPath)
         IN  IF cex # <<>> THEN cex
             ELSE findCounterexample(t, E, Tail(img), pth)

findCounterexample(t, E, img, pth) ==
    IF img = <<>> THEN <<>>
    ELSE LET n        == Head(img)
             loop     == \E i \in 1..Len(pth) : equal(t, n, pth[i])
             copyPath == Append(pth, n)
             cex      == IF loop THEN <<>>
                         ELSE IF ~definitely(isSafe(t, n)) THEN copyPath
                         ELSE findCounterexample(t, E, postimage(E, n), copyPath)
         IN  IF cex # <<>> THEN cex
             ELSE findCounterexample(t, E, Tail(img), pth)

RECURSIVE findCounterexampleLegacy(_, _, _, _)
\* mutant: the image is searched from its last node to its first
findCounterexampleLegacyLastFirst(t, E, img, pth) ==
    IF img = <<>> THEN <<>>
    ELSE LET n        == Head(img)
             copyPath == Append(pth, n)
             loop     == \E i \in 1..Len(pth) :
                             definitely(nodesEqual(t, n, pth[i]))
             rest     == findCounterexampleLegacy(t, E, Tail(img), pth)
         IN  IF rest # <<>> THEN rest
             ELSE IF ~definitely(isSafe(t, n)) THEN copyPath
             ELSE IF loop THEN <<>>
             ELSE findCounterexampleLegacy(t, E, postimage(E, n), copyPath)

\* the prototype in refinementTree.hpp: the safety test comes before the
\* loop test
findCounterexampleLegacy(t, E, img, pth) ==
    IF img = <<>> THEN <<>>
    ELSE LET n        == Head(img)
             copyPath == Append(pth, n)
             loop     == \E i \in 1..Len(pth) :
                             definitely(nodesEqual(t, n, pth[i]))
             cex      == IF ~definitely(isSafe(t, n)) THEN copyPath
                         ELSE IF loop THEN <<>>
                         ELSE findCounterexampleLegacy(t, E, postimage(E, n),
                                                       copyPath)
         IN  IF cex # <<>> THEN cex
             ELSE findCounterexampleLegacy(t, E, Tail(img), pth)

\* the searches below follow a call only while its path is not longer than
\* this; no path of distinct tree nodes is
DepthLimit == MaxTreeSize

RECURSIVE searchDepth(_, _, _, _)
\* mutant: a node that is on the path already is entered again
searchDepthNoLoopCheck(t, E, img, pth) ==
    IF Len(pth) > DepthLimit THEN <<TRUE, Len(pth)>>
    ELSE IF img = <<>> THEN <<FALSE, Len(pth)>>
    ELSE LET n        == Head(img)
             copyPath == Append(pth, n)
             sub      == IF ~definitely(isSafe(t, n)) THEN <<TRUE, Len(pth)>>
                         ELSE searchDepth(t, E, postimage(E, n), copyPath)
             rest     == searchDepth(t, E, Tail(img), pth)
         IN  IF sub[1] THEN <<TRUE, Max2(Len(pth), sub[2])>>
             ELSE <<rest[1], Max2(sub[2], rest[2])>>

\* findCounterexample of cegar.hpp with the nesting of its calls counted:
\* <<a counterexample was returned, length of the path handed to the deepest
\* call>>; the for loop is the recursion on Tail( img ), the recursive call
\* of the source is the one on the postimage
searchDepth(t, E, img, pth) ==
    IF Len(pth) > DepthLimit THEN <<TRUE, Len(pth)>>
    ELSE IF img = <<>> THEN <<FALSE, Len(pth)>>
    ELSE LET n        == Head(img)
             loop     == \E i \in 1..Len(pth) : equal(t, n, pth[i])
             copyPath == Append(pth, n)
             sub      == IF loop THEN <<FALSE, Len(pth)>>
                         ELSE IF ~definitely(isSafe(t, n)) THEN <<TRUE, Len(pth)>>
                         ELSE searchDepth(t, E, postimage(E, n), copyPath)
             rest     == searchDepth(t, E, Tail(img), pth)
         IN  IF sub[1] THEN <<TRUE, Max2(Len(pth), sub[2])>>
             ELSE <<rest[1], Max2(sub[2], rest[2])>>

\* the same count for the prototype in refinementTree.hpp
RECURSIVE searchDepthLegacy(_, _, _, _)
searchDepthLegacy(t, E, img, pth) ==
    IF Len(pth) > DepthLimit THEN <<TRUE, Len(pth)>>
    ELSE IF img = <<>> THEN <<FALSE, Len(pth)>>
    ELSE LET n        == Head(img)
             copyPath == Append(pth, n)
             loop     == \E i \in 1..Len(pth) :
                             definitely(nodesEqual(t, n, pth[i]))
             sub      == IF ~definitely(isSafe(t, n)) THEN <<TRUE, Len(pth)>>
                         ELSE IF loop THEN <<FALSE, Len(pth)>>
                         ELSE searchDepthLegacy(t, E, postimage(E, n), copyPath)
             rest     == searchDepthLegacy(t, E, Tail(img), pth)
         IN  IF sub[1] THEN <<TRUE, Max2(Len(pth), sub[2])>>
             ELSE <<rest[1], Max2(sub[2], rest[2])>>

-----------------------------------------------------------------------------
(* Spuriousness check (cegar.hpp) *)

\* the enclosure the tree was constructed with
initialEnclosure(t) == getEnclosure(t, 1)

\* notCovers( nodeEnc, initialEnc )
notCovers(nodeEnc, initialEnc) ==
    LowerCheck(intersection(initialEnc, nodeEnc) # nodeEnc)

\* the walk of the representative point along cex[i..]
RECURSIVE mapForward(_, _, _, _, _)
\* mutant: the walk stops when the mapped point is definitely inside
mapForwardInverted(f, t, cex, i, currPoint) ==
    IF i > Len(cex) THEN "F"
    ELSE LET mappedPoint    == evaluate(f, currPoint)
             containsMapped ==
                 IF hasValue(cex[i])
                 THEN contains(getEnclosure(t, cex[i]), mappedPoint)
                 ELSE Not(contains(getEnclosure(t, 1), mappedPoint))
         IN  IF definitely(containsMapped) THEN "T"
             ELSE mapForward(f, t, cex, i + 1, mappedPoint)

mapForward(f, t, cex, i, currPoint) ==
    IF i > Len(cex) THEN "F"
    ELSE LET mappedPoint    == evaluate(f, currPoint)
             containsMapped ==
                 IF hasValue(cex[i])
                 THEN contains(getEnclosure(t, cex[i]), mappedPoint)
                 ELSE Not(contains(getEnclosure(t, 1), mappedPoint))
         IN  IF definitely(Not(containsMapped)) THEN "T"
             ELSE mapForward(f, t, cex, i + 1, mappedPoint)

isSpurious(f, t, cex, img) ==
    IF ~hasValue(cex[1])
    THEN IF \E i \in 1..Len(img) :
                possibly(notCovers(getEnclosure(t, img[i]), initialEnclosure(t)))
         THEN "F" ELSE "T"
    ELSE LET currPoint == centre(getEnclosure(t, cex[1]))
         IN  IF \A i \in 1..Len(img) :
                    ~possibly(contains(getEnclosure(t, img[i]), currPoint))
             THEN "T"
             ELSE mapForward(f, t, cex, 2, currPoint)

-----------------------------------------------------------------------------
(* CEGAR driver (cegar.hpp) *)

\* mutant: the loop still runs when the tree has exactly maxNodes nodes
LoopTestInclusive(sz, mn) == sz <= mn

\* mutant: the loop runs only if a whole refinement still fits the budget
LoopTestReserve(sz, mn) == sz + N <= mn

\* the loop test of cegar
LoopTest(sz, mn) == sz < mn

\* mutant: a terminal node that is only possibly unsafe is accepted
UnsafeVerdictPossibly(f, t, cex, img) ==
    /\ definitely(Not(isSpurious(f, t, cex, img)))
    /\ ~definitely(isSafe(t, cex[Len(cex)]))

\* the test that returns the counterexample as a genuine one
UnsafeVerdict(f, t, cex, img) ==
    /\ definitely(Not(isSpurious(f, t, cex, img)))
    /\ definitely(Not(isSafe(t, cex[Len(cex)])))

\* the elements of s at the indices in I, in the order of s
RECURSIVE SubSeq2(_, _, _)
SubSeq2(s, I, i) ==
    IF i > Len(s) THEN <<>>
    ELSE (IF i \in I THEN <<s[i]>> ELSE <<>>) \o SubSeq2(s, I, i + 1)

\* what a locator may return: an ordered selection of nodes of the path
LocatorOutputs(cex) == {SubSeq2(cex, I, 1) : I \in SUBSET (1..Len(cex))}

\* the targets that still have a node value
Refinable(targets) == SelectSeq(targets, hasValue)

RECURSIVE refineTargets(_, _, _, _, _)
\* mutant: the leaves of a refined initial node are not put back into the
\* initial image
refineTargetsEraseOnly(f, cs, is, st, targets) ==
    IF targets = <<>> THEN st
    ELSE LET r == Head(targets)
         IN  IF ~hasValue(r) THEN refineTargets(f, cs, is, st, Tail(targets))
             ELSE refineTargets(f, cs, is,
                                [t   |-> refineTree(cs, st.t, r),
                                 V   |-> refineVerts(st.t, st.V, r),
                                 E   |-> refineEdges(f, cs, st.t, st.E, r),
                                 img |-> IF setFind(st.img, r)
                                         THEN setErase(st.img, r)
                                         ELSE st.img],
                                Tail(targets))

\* mutant: all leaves of a refined initial node are put into the initial
\* image, whether they meet the initial set or not
refineTargetsInsertChildren(f, cs, is, st, targets) ==
    IF targets = <<>> THEN st
    ELSE LET r == Head(targets)
         IN  IF ~hasValue(r) THEN refineTargets(f, cs, is, st, Tail(targets))
             ELSE LET t1 == refineTree(cs, st.t, r)
                  IN  refineTargets(f, cs, is,
                                    [t   |-> t1,
                                     V   |-> refineVerts(st.t, st.V, r),
                                     E   |-> refineEdges(f, cs, st.t, st.E, r),
                                     img |-> IF setFind(st.img, r)
                                             THEN setInsertAll(setErase(st.img, r),
                                                               leaves(t1, r))
                                             ELSE st.img],
                                    Tail(targets))

\* mutant: a loop without targets forgets the initial image
refineTargetsDropImage(f, cs, is, st, targets) ==
    IF targets = <<>> THEN [st EXCEPT !.img = <<>>]
    ELSE LET r == Head(targets)
         IN  IF ~hasValue(r) THEN refineTargets(f, cs, is, st, Tail(targets))
             ELSE refineTargets(f, cs, is,
                                [t   |-> refineTree(cs, st.t, r),
                                 V   |-> refineVerts(st.t, st.V, r),
                                 E   |-> refineEdges(f, cs, st.t, st.E, r),
                                 img |-> st.img],
                                Tail(targets))

\* body of the for loop over the locator's targets; st = [t, V, E, img]
refineTargets(f, cs, is, st, targets) ==
    IF targets = <<>> THEN st
    ELSE LET r == Head(targets)
         IN  IF ~hasValue(r) THEN refineTargets(f, cs, is, st, Tail(targets))
             ELSE LET iRefined == setFind(st.img, r)
                      t1 == refineTree(cs, st.t, r)
                      V1 == refineVerts(st.t, st.V, r)
                      E1 == refineEdges(f, cs, st.t, st.E, r)
                      img1 == IF iRefined
                              THEN setInsertAll(setErase(st.img, r),
                                                imageRecursive(t1, is, r))
                              ELSE st.img
                  IN  refineTargets(f, cs, is,
                                    [t |-> t1, V |-> V1, E |-> E1, img |-> img1],
                                    Tail(targets))

Counterexample == findCounterexample(tree, gedges, initialImage, <<>>)

-----------------------------------------------------------------------------
(* State machine *)

Init ==
    /\ dynamics \in Dynamics
    /\ constraints \in ConstraintSets
    /\ tree = <<TreeValue(RootBox, SafeFlag(constraints, RootBox))>>
    /\ gverts = addVertex(<<>>, 1)
    /\ gedges = InitEdges(dynamics, tree)
    /\ pc = "idle"
    /\ initialSet = RootBox
    /\ maxNodes = 1
    /\ initialImage = <<>>
    /\ result = "none"
    /\ path = <<>>
    /\ sizeAtCall = size(tree)
    /\ sizeAtTest = size(tree)
    /\ lastTargets = 0
    /\ iter = 0
    /\ proved = <<>>

\* a client calls RefinementTree::refine on a current leaf
Refine(v) ==
    /\ pc = "idle"
    /\ v \in Range(gverts)
    /\ size(tree) + N <= MaxTreeSize
    /\ tree' = refineTree(constraints, tree, v)
    /\ gverts' = refineVerts(tree, gverts, v)
    /\ gedges' = refineEdges(dynamics, constraints, tree, gedges, v)
    /\ proved' = <<>>
    /\ UNCHANGED <<dynamics, constraints, pc, initialSet, maxNodes, initialImage,
                   result, path, sizeAtCall, sizeAtTest, lastTargets, iter>>

\* a client calls RefinementTree::refine with the handle of a node that was
\* refined before
RefineNonLeaf(v) ==
    /\ pc = "idle"
    /\ v \in 1..Len(tree)
    /\ ~isLeaf(tree, v)
    /\ LET r == refineSteps(dynamics, constraints, tree, gverts, gedges, v)
       IN  /\ tree' = r.t
           /\ gverts' = r.V
           /\ gedges' = r.E
           /\ pc' = IF r.failed THEN "panic" ELSE "idle"
    /\ proved' = <<>>
    /\ UNCHANGED <<dynamics, constraints, initialSet, maxNodes, initialImage,
                   result, path, sizeAtCall, sizeAtTest, lastTargets, iter>>

\* a client calls cegar: the initial image is computed from the root
CegarCall(is, mn) ==
    /\ pc = "idle"
    /\ pc' = "loop"
    /\ initialSet' = is
    /\ maxNodes' = mn
    /\ initialImage' = setInsertAll(<<>>, image(tree, is))
    /\ result' = "none"
    /\ path' = <<>>
    /\ sizeAtCall' = size(tree)
    /\ sizeAtTest' = size(tree)
    /\ lastTargets' = 0
    /\ iter' = 0
    /\ proved' = IF proved # <<>> /\ is = proved[1] /\ mn > proved[2]
                 THEN <<proved[1], proved[2], TRUE>>
                 ELSE <<>>
    /\ UNCHANGED <<dynamics, constraints, tree, gverts, gedges>>

\* the loop test fails: the budget is exhausted
CegarExhausted ==
    /\ pc = "loop"
    /\ ~LoopTest(size(tree), maxNodes)
    /\ pc' = "done"
    /\ result' = "I"
    /\ path' = <<>>
    /\ sizeAtTest' = size(tree)
    /\ UNCHANGED <<dynamics, constraints, tree, gverts, gedges, initialSet,
                   maxNodes, initialImage, sizeAtCall, lastTargets, iter, proved>>

\* no counterexample: proved safe
CegarSafe ==
    /\ pc = "loop"
    /\ LoopTest(size(tree), maxNodes)
    /\ Counterexample = <<>>
    /\ pc' = "done"
    /\ result' = "T"
    /\ path' = <<>>
    /\ sizeAtTest' = size(tree)
    /\ UNCHANGED <<dynamics, constraints, tree, gverts, gedges, initialSet,
                   maxNodes, initialImage, sizeAtCall, lastTargets, iter, proved>>

\* a counterexample that is not spurious and ends definitely unsafe
CegarUnsafe ==
    /\ pc = "loop"
    /\ LoopTest(size(tree), maxNodes)
    /\ Counterexample # <<>>
    /\ UnsafeVerdict(dynamics, tree, Counterexample, initialImage)
    /\ pc' = "done"
    /\ result' = "F"
    /\ path' = Counterexample
    /\ sizeAtTest' = size(tree)
    /\ UNCHANGED <<dynamics, constraints, tree, gverts, gedges, initialSet,
                   maxNodes, initialImage, sizeAtCall, lastTargets, iter, proved>>

\* otherwise the nodes the locator selects are refined and the loop goes on
CegarRefine ==
    /\ pc = "loop"
    /\ LoopTest(size(tree), maxNodes)
    /\ Counterexample # <<>>
    /\ ~UnsafeVerdict(dynamics, tree, Counterexample, initialImage)
    /\ \E targets \in LocatorOutputs(Counterexample) :
          /\ size(tree) + N * Len(Refinable(targets)) <= MaxTreeSize
          /\ LET st == refineTargets(dynamics, constraints, initialSet,
                                     [t |-> tree, V |-> gverts, E |-> gedges,
                                      img |-> initialImage], targets)
             IN  /\ tree' = st.t
                 /\ gverts' = st.V
                 /\ gedges' = st.E
                 /\ initialImage' = st.img
          /\ lastTargets' = Len(Refinable(targets))
    /\ sizeAtTest' = size(tree)
    /\ iter' = 1 - iter
    /\ UNCHANGED <<dynamics, constraints, pc, initialSet, maxNodes, result,
                   path, sizeAtCall, proved>>

\* cegar has returned and its locals are gone; the tree can be used again
CegarReturn ==
    /\ pc = "done"
    /\ pc' = "idle"
    /\ initialSet' = RootBox
    /\ maxNodes' = 1
    /\ initialImage' = <<>>
    /\ result' = "none"
    /\ path' = <<>>
    /\ sizeAtCall' = size(tree)
    /\ sizeAtTest' = size(tree)
    /\ lastTargets' = 0
    /\ iter' = 0
    /\ proved' = IF result = "T" THEN <<initialSet, maxNodes, FALSE>> ELSE <<>>
    /\ UNCHANGED <<dynamics, constraints, tree, gverts, gedges>>

CegarIteration == CegarExhausted \/ CegarSafe \/ CegarUnsafe \/ CegarRefine

Next ==
    \/ \E v \in 1..MaxTreeSize : Refine(v)
    \/ \E v \in 1..MaxTreeSize : RefineNonLeaf(v)
    \/ \E is \in InitialSets, mn \in 1..MaxTreeSize : CegarCall(is, mn)
    \/ CegarExhausted
    \/ CegarSafe
    \/ CegarUnsafe
    \/ CegarRefine
    \/ CegarReturn

Spec == Init /\ [][Next]_vars

\* the loop of cegar runs on its own: an enabled iteration is eventually run
FairSpec == Spec /\ WF_vars(CegarIteration)

-----------------------------------------------------------------------------
(* Properties *)

\* vertices reachable through graph edges from the vertices in S, S included
RECURSIVE ReachFrom(_, _)
ReachFrom(E, S) ==
    LET S1 == S \cup {e[2] : e \in {x \in Range(E) : x[1] \in S}}
    IN  IF S1 = S THEN S ELSE ReachFrom(E, S1)

LeafSet(t) == {n \in 1..Len(t) : isLeaf(t, n)}

\* the k-fold application of the dynamics to a point
RECURSIVE Iterate(_, _, _)
Iterate(f, k, x) == IF k = 0 THEN x ELSE Iterate(f, k - 1, evaluate(f, x))

Returned(r) == pc = "done" /\ result = r

\* C1: when cegar returns (True, []), every vertex reachable through graph
\* edges from the initial image, the image's leaves included, is definitely safe
C1_ProvedSafe ==
    Returned("T") =>
        /\ path = <<>>
        /\ \A v \in ReachFrom(gedges, Range(initialImage)) :
              definitely(isSafe(tree, v))

\* C1 witness: True is returned after cegar refined a counterexample away
C1_Witness ==
    /\ Returned("T")
    /\ size(tree) > sizeAtCall
    /\ initialImage # <<>>

\* C2: (False, cex) is returned only with cex non-empty, isSpurious(cex)
\* definitely false and the last node definitely not safe; an iteration whose
\* counterexample fails one of the two tests returns nothing and stays in the loop
C2_FalseOnlyIfGenuine ==
    /\ [](Returned("F") =>
            /\ path # <<>>
            /\ isSpurious(dynamics, tree, path, initialImage) = "F"
            /\ isSafe(tree, path[Len(path)]) = "F")
    /\ [][(/\ pc = "loop"
           /\ size(tree) < maxNodes
           /\ Counterexample # <<>>
           /\ \/ isSpurious(dynamics, tree, Counterexample, initialImage) # "F"
              \/ isSafe(tree, Counterexample[Len(Counterexample)]) # "F")
          => (pc' = "loop" /\ result' = "none" /\ path' = <<>>)]_vars

\* C2 witness: a False verdict whose path runs through two leaves
C2_Witness == Returned("F") /\ Len(path) >= 3

\* C3: when cegar returns (False, path), the representative point
\* centre(box of path[0]) lies in the caller's initial box
C3_WitnessStartsInInitialBox ==
    (Returned("F") /\ hasValue(path[1])) =>
        possibly(contains(initialSet, centre(getEnclosure(tree, path[1]))))

\* C4: when cegar returns (False, path), the i-fold image of centre(box of
\* path[0]) is possibly inside the box of path[i], for every i; for the
\* outside sink the image is possibly outside the root box
C4_TraceFollowsPath ==
    (Returned("F") /\ hasValue(path[1])) =>
        \A i \in 1..Len(path) :
            LET pt == Iterate(dynamics, i - 1, centre(getEnclosure(tree, path[1])))
            IN  IF hasValue(path[i])
                THEN possibly(contains(getEnclosure(tree, path[i]), pt))
                ELSE possibly(Not(contains(getEnclosure(tree, 1), pt)))

\* C4 witness: a False verdict whose trace moves from one leaf to another
C4_Witness ==
    /\ Returned("F")
    /\ Len(path) >= 3
    /\ hasValue(path[2])
    /\ path[1] # path[2]

\* C5: every call of cegar terminates, whatever the locator returns
C5_CegarTerminates == (pc = "loop") ~> (pc = "done")

\* C6 as stated: a single definitely safe root leaf with only a self-loop
\* and max_nodes = 1 yields (True, [])
C6_TrivialSafeBudgetOne ==
    (/\ pc = "done"
     /\ size(tree) = 1
     /\ definitely(isSafe(tree, 1))
     /\ gedges = << <<1, 1>> >>
     /\ maxNodes = 1) => (result = "T" /\ path = <<>>)

\* C6 amended: for that tree cegar returns (True, []) when max_nodes >= 2 and
\* (Indeterminate, []) when max_nodes = 1
C6_TrivialSafe ==
    (/\ pc = "done"
     /\ size(tree) = 1
     /\ definitely(isSafe(tree, 1))
     /\ gedges = << <<1, 1>> >>) =>
        /\ path = <<>>
        /\ maxNodes >= 2 => result = "T"
        /\ maxNodes = 1 => result = "I"

\* C6 witness: the single safe root with max_nodes = 2 is proved safe
C6_Witness ==
    /\ Returned("T")
    /\ size(tree) = 1
    /\ gedges = << <<1, 1>> >>
    /\ maxNodes = 2

\* C7: when the node count is not below max_nodes at the loop test, cegar
\* returns (Indeterminate, []) and neither searches nor refines in that step
C7_BudgetExhausted ==
    [][(pc = "loop" /\ size(tree) >= maxNodes) =>
          /\ pc' = "done"
          /\ result' = "I"
          /\ path' = <<>>
          /\ UNCHANGED <<tree, gverts, gedges, initialImage>>]_vars

\* C7 witness: the single-node tree with max_nodes = 1
C7_Witness == Returned("I") /\ size(tree) = 1 /\ maxNodes = 1 /\ path = <<>>

\* C8: for a single-root tree whose root box is disjoint from the constraint
\* set and max_nodes > 1, the iteration returns (False, [root]) without refining
C8_ImmediatelyUnsafe ==
    [][(/\ pc = "loop"
        /\ size(tree) = 1
        /\ constraints[1] > RootBox[2]
        /\ maxNodes > 1) =>
          (pc' = "done" /\ result' = "F" /\ path' = <<1>> /\ tree' = tree)]_vars

\* C9 as stated: a tree within the budget at the call is within it at return
C9_WithinBudget ==
    (pc = "done" /\ sizeAtCall <= maxNodes) => size(tree) <= maxNodes

\* C9 amended: the budget is tested only before an iteration, so at return the
\* tree has at most max_nodes - 1 + N * k nodes, k being the number of nodes
\* refined by the last iteration, or is the tree of the call
C9_BudgetOvershoot ==
    (pc = "done" /\ sizeAtCall <= maxNodes) =>
        \/ size(tree) = sizeAtCall
        \/ size(tree) <= maxNodes - 1 + N * lastTargets

\* C9 witness: two nodes refined in the last iteration carry the tree past
\* the budget
C9_Witness ==
    /\ pc = "done"
    /\ sizeAtCall <= maxNodes
    /\ lastTargets >= 2
    /\ size(tree) > maxNodes

\* C10: the values of the graph's vertices are exactly the current leaves,
\* one vertex per leaf, none for an interior node
C10_LeafBijection ==
    /\ Range(gverts) = LeafSet(tree)
    /\ Len(gverts) = Cardinality(LeafSet(tree))

\* C10 witness: after at least two refine calls, with an interior node
\* other than the root
C10_Witness ==
    /\ pc = "idle"
    /\ size(tree) >= 1 + 2 * N
    /\ \E n \in 2..Len(tree) : ~isLeaf(tree, n)


\* the image of box bu under the dynamics is not proved disjoint from box bv
MayMapInto(f, bu, bv) ==
    LET img == BoxImage(f, bu)
    IN  Max2(img[1], bv[1]) <= Min2(img[2], bv[2])

\* C11: every graph edge u -> v starts at a current leaf, ends at a current
\* leaf (or at the outside sink) and has possibly(image(box_u) meets box_v)
\* (for the sink: the image of box_u is not proved inside the root box)
C11_EdgeSoundness ==
    \A i \in 1..Len(gedges) :
        LET u == gedges[i][1]
            v == gedges[i][2]
        IN  /\ u \in LeafSet(tree)
            /\ v \in LeafSet(tree) \cup {Outside}
            /\ IF v = Outside
               THEN LeavesRoot(dynamics, getEnclosure(tree, u))
               ELSE MayMapInto(dynamics, getEnclosure(tree, u), getEnclosure(tree, v))

\* C11 witness: after two refine calls the graph has an edge between two
\* different leaves and a pair of leaves without an edge
C11_Witness ==
    /\ size(tree) >= 1 + 2 * N
    /\ \E e \in Range(gedges) : hasValue(e[2]) /\ e[1] # e[2]
    /\ \E u \in LeafSet(tree), v \in LeafSet(tree) : <<u, v>> \notin Range(gedges)

\* C12: for every pair of current leaves u, v (u = v and siblings included)
\* with possibly(image(box_u) meets box_v) the edge u -> v is in the graph
C12_EdgeCompleteness ==
    \A u \in LeafSet(tree), v \in LeafSet(tree) :
        MayMapInto(dynamics, getEnclosure(tree, u), getEnclosure(tree, v))
            => <<u, v>> \in Range(gedges)

\* C12 witness: a refined leaf with a self-loop whose children map into each
\* other, next to a pair of leaves that needs no edge
C12_Witness ==
    /\ size(tree) >= 1 + 2 * N
    /\ \E n \in 1..Len(tree) :
          /\ ~isLeaf(tree, n)
          /\ isLeaf(tree, tree[n].kids[1])
          /\ isLeaf(tree, tree[n].kids[2])
          /\ <<tree[n].kids[1], tree[n].kids[2]>> \in Range(gedges)
    /\ \E u \in LeafSet(tree), v \in LeafSet(tree) :
          ~MayMapInto(dynamics, getEnclosure(tree, u), getEnclosure(tree, v))

\* C13: safety is monotone under refinement: a refined node whose stored
\* flag is True has only children whose flag is True
C13_SafetyMonotone ==
    \A n \in 1..Len(tree) :
        (~isLeaf(tree, n) /\ tree[n].safe = "T") =>
            \A i \in 1..N : tree[tree[n].kids[i]].safe = "T"

\* the initial images the search is tried on: every selection of current
\* graph vertices, in vector order
ImageChoices == {SubSeq2(gverts, I, 1) : I \in SUBSET (1..Len(gverts))}

\* p is empty or a path of graph-adjacent nodes from img to a node that is
\* not definitely safe, without two equal nodes
ValidPath(t, E, img, p) ==
    p # <<>> =>
        /\ p[1] \in Range(img)
        /\ \A i \in 1..(Len(p) - 1) : <<p[i], p[i + 1]>> \in Range(E)
        /\ isSafe(t, p[Len(p)]) # "T"
        /\ \A i \in 1..Len(p), j \in 1..Len(p) :
              i < j => /\ p[i] # p[j]
                       /\ (hasValue(p[i]) /\ hasValue(p[j]))
                              => getEnclosure(t, p[i]) # getEnclosure(t, p[j])

C15_EmptyIffSafe ==
    \A img \in ImageChoices :
        (findCounterexample(tree, gedges, img, <<>>) = <<>>)
            <=> (\A v \in ReachFrom(gedges, Range(img)) : isSafe(tree, v) = "T")

\* C15 witness: in one graph the search is empty for an image that reaches
\* several leaves and closes a loop, and non-empty for another image
C15_Witness ==
    /\ \E img \in ImageChoices :
          /\ findCounterexample(tree, gedges, img, <<>>) = <<>>
          /\ Cardinality(ReachFrom(gedges, Range(img))) >= 2
          /\ \E u \in ReachFrom(gedges, Range(img)),
                v \in ReachFrom(gedges, Range(img)) :
                u # v /\ <<u, v>> \in Range(gedges) /\ <<v, v>> \in Range(gedges)
    /\ \E img \in ImageChoices : findCounterexample(tree, gedges, img, <<>>) # <<>>

\* the keys the initial-image set can be asked to order: the graph vertices
\* and the outside sink
Keys == Range(gverts) \cup {Outside}

\* C18: the comparator of the initial-image set is a consistent ordering:
\* concrete nodes by id, no key less than itself (the sink included), the
\* sink consistently before or after every concrete node, and distinct keys
\* never equivalent
C18_ComparatorConsistent ==
    /\ \A a \in Keys : ~NodeComparator(a, a)
    /\ \A a \in Keys, b \in Keys :
          (hasValue(a) /\ hasValue(b)) => (NodeComparator(a, b) <=> a < b)
    /\ \/ \A c \in Range(gverts) :
              NodeComparator(Outside, c) /\ ~NodeComparator(c, Outside)
       \/ \A c \in Range(gverts) :
              NodeComparator(c, Outside) /\ ~NodeComparator(Outside, c)
    /\ \A a \in Keys, b \in Keys :
          a # b => (NodeComparator(a, b) \/ NodeComparator(b, a))

\* the boxes image is queried with: points and intervals on, between and
\* beyond the cut points of the tree
QueryPoints == {0, 1, RootWidth \div 4, RootWidth \div 2, RootWidth - 1,
                RootWidth, RootWidth + 1}

QueryBoxes == {<<l, h>> : l \in QueryPoints, h \in QueryPoints} \ 
                  {b \in QueryPoints \X QueryPoints : b[1] > b[2]}

\* the nodes of the subtree rooted at n
RECURSIVE Subtree(_, _)
Subtree(t, n) ==
    IF isLeaf(t, n) THEN {n}
    ELSE {n} \cup Subtree(t, t[n].kids[1]) \cup Subtree(t, t[n].kids[2])

\* closed boxes that share at least one point
MayMeet(b1, b2) == b1[1] <= b2[2] /\ b2[1] <= b1[2]

\* the current leaves under n whose enclosure possibly intersects b
LeavesMeeting(t, b, n) ==
    {l \in LeafSet(t) \cap Subtree(t, n) : MayMeet(b, getEnclosure(t, l))}

\* C19: image(box) is exactly the current leaves whose enclosure possibly
\* intersects box, each once; image from a sub-root is exactly those of
\* them in its subtree
C19_ImageExact ==
    \A b \in QueryBoxes :
        /\ Range(image(tree, b)) = LeavesMeeting(tree, b, 1)
        /\ Len(image(tree, b)) = Cardinality(LeavesMeeting(tree, b, 1))
        /\ \A n \in 1..Len(tree) :
              LET r == imageRecursive(tree, b, n)
              IN  /\ Range(r) = LeavesMeeting(tree, b, 1) \cap Subtree(tree, n)
                  /\ Len(r) = Cardinality(Range(r))

\* C19 witness: after two refinements a box meets several but not all
\* leaves, and an interior sub-root holds some but not all of them
C19_Witness ==
    /\ size(tree) >= 1 + 2 * N
    /\ \E b \in QueryBoxes, n \in 2..Len(tree) :
          /\ ~isLeaf(tree, n)
          /\ Len(image(tree, b)) >= 2
          /\ Range(image(tree, b)) # LeafSet(tree)
          /\ imageRecursive(tree, b, n) # <<>>
          /\ Range(imageRecursive(tree, b, n)) # Range(image(tree, b))
          /\ Range(imageRecursive(tree, b, n)) # LeafSet(tree) \cap Subtree(tree, n)

\* C16: an iteration of cegar in which the locator returns no node to refine
\* leaves the tree, the graph and the initial image as they were
C16_EmptyLocatorFrame ==
    [][(pc = "loop" /\ pc' = "loop" /\ lastTargets' = 0)
           => UNCHANGED <<tree, gverts, gedges, initialImage>>]_vars

\* C16 witness: cegar is in its loop on a refined tree with a non-empty
\* initial image, right after an iteration without targets
C16_Witness ==
    /\ pc = "loop"
    /\ iter = 1
    /\ lastTargets = 0
    /\ size(tree) > 1
    /\ initialImage # <<>>

\* cegar runs for the second time on the tree a proved-safe call left, with
\* the same initial set and a larger budget
CalledAgain == proved # <<>> /\ proved[3]

\* C17: once cegar has returned (true, []), calling it again on the
\* resulting tree with the same initial set and a larger maxNodes finds no
\* counterexample from the recomputed initial image and returns (true, [])
C17_ProvedSafeStable ==
    CalledAgain =>
        /\ maxNodes > proved[2] /\ initialSet = proved[1]
        /\ pc = "loop" => /\ LoopTest(size(tree), maxNodes)
                          /\ Counterexample = <<>>
        /\ pc = "done" => result = "T" /\ path = <<>>

\* C17 witness: the second call has returned, on a tree that was refined
\* and with several leaves in the initial image
C17_Witness ==
    /\ CalledAgain
    /\ pc = "done"
    /\ result = "T"
    /\ size(tree) >= 1 + 2 * N
    /\ Len(initialImage) >= 2

RefinedNow == LeafSet(tree) \ LeafSet(tree')

\* C21: at every loop test of cegar the initial image holds current leaves
\* only and is, as a set, image(initialSet) from the root; an iteration
\* replaces each refined node of the set by the image of the initial set in
\* its subtree and leaves the set alone when no refined node is in it
C21_InitialImageMaintained ==
    /\ [](pc = "loop" =>
             /\ Range(initialImage) \subseteq LeafSet(tree)
             /\ Range(initialImage) = Range(image(tree, initialSet)))
    /\ [][(pc = "loop" /\ pc' = "loop") =>
             /\ Range(initialImage') =
                    (Range(initialImage) \ RefinedNow)
                        \cup UNION {Range(imageRecursive(tree', initialSet, r)) :
                                       r \in RefinedNow \cap Range(initialImage)}
             /\ (RefinedNow \cap Range(initialImage) = {})
                    => initialImage' = initialImage]_vars

\* C21 witness: cegar was called on two leaves of which one met the initial
\* set, and its first iteration has refined both: one node of the initial
\* image and one outside it
C21_Witness ==
    /\ pc = "loop"
    /\ iter = 1
    /\ sizeAtCall = 1 + N
    /\ lastTargets = 2
    /\ Len(initialImage) = 1
    /\ Range(initialImage) # LeafSet(tree)

\* the tree nodes a step has created
CreatedNow == (Len(tree) + 1)..Len(tree')

\* C22: a refinement changes the graph only around the refined leaves:
\* edges between other vertices are neither added nor removed, boxes and
\* flags of the existing tree nodes stay, every new edge has a new child as
\* source or target, and only the refined leaf's vertex and its incident
\* edges are removed
C22_RefineFrame ==
    [][(tree' # tree) =>
          /\ \A u \in Keys \ RefinedNow, w \in Keys \ RefinedNow :
                 <<u, w>> \in Range(gedges) <=> <<u, w>> \in Range(gedges')
          /\ \A n \in 1..Len(tree) :
                 tree'[n].box = tree[n].box /\ tree'[n].safe = tree[n].safe
          /\ \A e \in Range(gedges') \ Range(gedges) :
                 e[1] \in CreatedNow \/ e[2] \in CreatedNow
          /\ \A e \in Range(gedges) \ Range(gedges') :
                 e[1] \in RefinedNow \/ e[2] \in RefinedNow
          /\ Range(gverts) \ Range(gverts') = RefinedNow
          /\ Range(gverts') \ Range(gverts) = CreatedNow]_vars

\* C22 witness: after two refinements the newest children are linked to an
\* older leaf, next to an edge between older vertices
C22_Witness ==
    /\ size(tree) >= 1 + 2 * N
    /\ \E u \in LeafSet(tree), w \in LeafSet(tree) \cup {Outside} :
          /\ u < Len(tree) - 1 /\ w < Len(tree) - 1
          /\ <<u, w>> \in Range(gedges)
          /\ \/ <<u, Len(tree)>> \in Range(gedges)
             \/ <<Len(tree), u>> \in Range(gedges)

\* C23: findCounterexample (either prototype) terminates on every graph,
\* cycles and self-loops among definitely safe leaves included: its calls
\* never nest deeper than there are current leaves, the depth being the
\* number of nodes on the path handed to the deepest call
C23_SearchDepthBounded ==
    \A img \in ImageChoices :
        LET d  == searchDepth(tree, gedges, img, <<>>)
            dl == searchDepthLegacy(tree, gedges, img, <<>>)
        IN  /\ d[2] <= Cardinality(LeafSet(tree))
            /\ dl[2] <= Cardinality(LeafSet(tree))
            /\ d[1] <=> (findCounterexample(tree, gedges, img, <<>>) # <<>>)
            /\ dl[1] <=> (findCounterexampleLegacy(tree, gedges, img, <<>>) # <<>>)

\* C23 witness: on a refined tree whose leaves are all definitely safe and
\* linked in cycles the search goes as deep as there are leaves and returns
\* nothing
C23_Witness ==
    /\ Cardinality(LeafSet(tree)) >= 3
    /\ \E u \in LeafSet(tree), w \in LeafSet(tree) :
          u # w /\ <<u, w>> \in Range(gedges) /\ <<w, u>> \in Range(gedges)
    /\ \E img \in ImageChoices :
          searchDepth(tree, gedges, img, <<>>) = <<FALSE, Cardinality(LeafSet(tree))>>

\* the graph as the refinement tree of refinementTree.hpp keeps it: without
\* the outside sink
InsideEdges == removeVertexE(gedges, Outside)

=============================================================================
